---- MODULE Spec2Model ----
(***************************************************************************)
(* A model of ThingModel (src/static/js/models/thing-model.js): the        *)
(* browser-side cache of one remote thing's properties and events, fed by  *)
(* request/response calls and by a websocket.                              *)
(*                                                                         *)
(* JavaScript values are modelled as strings: NULL and UNDEFINED are the   *)
(* two "no information" values, the members of RealValues are defined,     *)
(* non-null JSON values.  A JavaScript object is a function whose DOMAIN   *)
(* is its set of own keys; an object whose key order is observable (an     *)
(* event payload) is a sequence of [name, data] pairs with distinct names. *)
(***************************************************************************)
EXTENDS Integers, Sequences, FiniteSets, TLC

VARIABLES
    href,                  \* TRUE iff this.href was set by the constructor
    eventsHref,            \* TRUE iff this.eventsHref was set by the constructor
    propertyDescriptions,  \* this.propertyDescriptions: name -> declared type
    eventDescriptions,     \* the own keys of this.eventDescriptions
    properties,            \* this.properties
    events,                \* this.events
    ws,                    \* readyState of this.ws, "none" when this.ws is undefined
    wsListening,           \* TRUE iff the message/close/error listeners are attached
    wsSent,                \* the messages this.ws.send() was given, in order
    handlers,              \* the subscriber registry of the base Model
    setRequests,           \* the names of the setProperty writes in flight
    batches,               \* number of updateProperties batches in flight
    eventsRequests,        \* number of updateEvents reads in flight
    removeRequests,        \* number of removeThing deletes in flight
    wsOpened,              \* number of WebSocket objects constructed
    wsCloseCalls,          \* number of calls of this.ws.close()
    stimuli,               \* number of calls and inbound messages so far
    released,              \* the handlers a teardown has released (observation only)
    last                   \* what the latest handler did (observation only)

vars == <<href, eventsHref, propertyDescriptions, eventDescriptions, properties,
          events, ws, wsListening, wsSent, wsOpened, wsCloseCalls, handlers,
          setRequests, batches, eventsRequests, removeRequests, stimuli,
          released, last>>

schema == <<href, eventsHref, propertyDescriptions, eventDescriptions>>

socket == <<ws, wsListening, wsSent, wsOpened, wsCloseCalls>>

registry == <<handlers, released>>

----------------------------------------------------------------------------
(* Bounds of the model. *)

\* Calls of the public methods plus inbound stream messages in one behaviour.
MaxStimuli == 2

\* The longest list the events collection answers with.
MaxResponse == 2

----------------------------------------------------------------------------
(* The universe of inputs. *)

NULL == "null"
UNDEFINED == "undefined"
RealValues == {"a", "b"}
JsonValues == RealValues \cup {NULL}
Values == JsonValues \cup {UNDEFINED}

SchemaProps == {"level", "on"}
PropNames == SchemaProps \cup {"extra"}

SchemaEvents == {"motion", "alarm"}
EventNames == SchemaEvents \cup {"bogus"}

PROPERTY_STATUS == "propertyStatus"
EVENT_OCCURRED == "eventOccurred"
OTHER_KIND == "connected"
Kinds == {PROPERTY_STATUS, EVENT_OCCURRED, OTHER_KIND}
HandlerIds == {"h1", "h2", "h3"}

EmptyObject == [k \in {} |-> NULL]

\* The objects over the keys ks with values in vs.
Objects(ks, vs) == UNION {[d -> vs] : d \in SUBSET ks}

\* The property maps of the model: objects with at most one key.  (A map
\* with several keys reaches onPropertyStatus from updateProperties, which
\* merges one body per schema property.)
Payloads == {p \in Objects(PropNames, Values) : Cardinality(DOMAIN p) <= 1}

\* What JSON.parse can deliver as a property map: no undefined.
JsonPayloads == {p \in Payloads : \A k \in DOMAIN p : p[k] # UNDEFINED}

\* The body of one property read or write echo.
Bodies == JsonPayloads

\* What setProperty can be given as a value (a control's value is a string).
SetInputs == {"3.5", "x"}

----------------------------------------------------------------------------
(* Observation: what the latest handler did, in the order it did it. *)

\*   op, name     the handler that ran and the name it was given
\*   outcome      how the request it completes ended
\*   data, evdata the property map or event list it was given
\*   reconciled   TRUE iff it ran onPropertyStatus
\*   again        TRUE iff it ran onPropertyStatus on the map the handler
\*                before it ran onPropertyStatus on
\*   emitted      the calls of handleEvent, in order
\*   invoked      the calls of subscribers' handlers, in order
\*   effects      its calls out (fetch, send, close, ...) and its settling
\*   result, msg  how its result settled, and the pieces of the message
Idle == [op |-> "constructor", name |-> "", outcome |-> "", data |-> EmptyObject,
         evdata |-> <<>>, reconciled |-> FALSE, again |-> FALSE,
         emitted |-> <<>>, invoked |-> <<>>, effects |-> <<>>,
         result |-> "none", msg |-> <<>>]

----------------------------------------------------------------------------
(* The base Model: subscribe, handleEvent, cleanup. *)

\* Model.subscribe: the handler joins the handlers of the event kind.
ModelSubscribe(hs, kind, h) == [hs EXCEPT ![kind] = Append(@, h)]

\* Model.handleEvent: every handler registered for the kind is invoked with
\* the payload, in registration order.
HandleEvent(hs, kind, payload) ==
    [i \in 1..Len(hs[kind]) |-> [h |-> hs[kind][i], payload |-> payload]]

\* Model.cleanup: all registrations are cleared.
ModelCleanup(hs) == [k \in DOMAIN hs |-> <<>>]

----------------------------------------------------------------------------
(* onPropertyStatus, lines 267-281. *)

\* Variant: the loop without the hasOwnProperty test of line 269.
StoredKeysAnyName(data) ==
    {prop \in DOMAIN data : data[prop] # UNDEFINED /\ data[prop] # NULL}

\* Variant: the loop without the undefined/null test of line 274.
StoredKeysAnyValue(data) ==
    {prop \in DOMAIN data : prop \in DOMAIN propertyDescriptions}

\* The keys of data the loop stores: own keys of the schema whose value is
\* neither undefined nor null.
StoredKeys(data) ==
    {prop \in DOMAIN data :
        /\ prop \in DOMAIN propertyDescriptions
        /\ data[prop] # UNDEFINED
        /\ data[prop] # NULL}

\* Variant: a loop that stores a value only for a key the cache does not hold.
FoldStatusKeepFirst(props, data) ==
    [prop \in DOMAIN props \cup StoredKeys(data) |->
        IF prop \in DOMAIN props THEN props[prop] ELSE data[prop]]

\* this.properties after the loop over data.
FoldStatus(props, data) ==
    [prop \in DOMAIN props \cup StoredKeys(data) |->
        IF prop \in StoredKeys(data) THEN data[prop] ELSE props[prop]]

\* Variant: onPropertyStatus that notifies only when the cache changed.
OnPropertyStatusOnChange(op, name, data, rest, result) ==
    /\ properties' = FoldStatus(properties, data)
    /\ last' = [Idle EXCEPT
                  !.op = op, !.name = name, !.data = data,
                  !.outcome = "ok", !.reconciled = TRUE,
                  !.again = (last.reconciled /\ last.data = data),
                  !.emitted = IF properties' = properties THEN <<>>
                              ELSE <<[kind |-> PROPERTY_STATUS, payload |-> properties']>>,
                  !.invoked = IF properties' = properties THEN <<>>
                              ELSE HandleEvent(handlers, PROPERTY_STATUS, properties'),
                  !.effects = (IF properties' = properties THEN <<>> ELSE <<"emit">>)
                                \o rest,
                  !.result = result]

\* Variant: onPropertyStatus that notifies with the values it stored, not with
\* the cache.
OnPropertyStatusEmitDelta(op, name, data, rest, result) ==
    /\ properties' = FoldStatus(properties, data)
    /\ last' = [Idle EXCEPT
                  !.op = op, !.name = name, !.data = data,
                  !.outcome = "ok", !.reconciled = TRUE,
                  !.again = (last.reconciled /\ last.data = data),
                  !.emitted = <<[kind |-> PROPERTY_STATUS,
                                 payload |-> FoldStatus(EmptyObject, data)]>>,
                  !.invoked = HandleEvent(handlers, PROPERTY_STATUS,
                                          FoldStatus(EmptyObject, data)),
                  !.effects = <<"emit">> \o rest,
                  !.result = result]

\* The whole of onPropertyStatus(data), run by the handler named op: fold, then
\* handleEvent(PROPERTY_STATUS, this.properties).  rest are the effects that follow.
OnPropertyStatus(op, name, data, rest, result) ==
    /\ properties' = FoldStatus(properties, data)
    /\ last' = [Idle EXCEPT
                  !.op = op, !.name = name, !.data = data,
                  !.outcome = "ok", !.reconciled = TRUE,
                  !.again = (last.reconciled /\ last.data = data),
                  !.emitted = <<[kind |-> PROPERTY_STATUS, payload |-> properties']>>,
                  !.invoked = HandleEvent(handlers, PROPERTY_STATUS, properties'),
                  !.effects = <<"emit">> \o rest,
                  !.result = result]

\* A direct call of onPropertyStatus(data).
CallOnPropertyStatus(data) ==
    /\ stimuli < MaxStimuli
    /\ stimuli' = stimuli + 1
    /\ OnPropertyStatus("onPropertyStatus", "call", data, <<>>, "none")
    /\ UNCHANGED <<schema, events, socket, registry, setRequests, batches,
                   eventsRequests, removeRequests>>

----------------------------------------------------------------------------
(* setProperty, lines 192-233. *)

\* The switch on the declared type, lines 197-207.
Coerce(type, value) ==
    CASE type = "number"  -> (IF value = "3.5" THEN "3.5" ELSE "NaN")
      [] type = "integer" -> (IF value = "3.5" THEN "3" ELSE "NaN")
      [] type = "boolean" -> (IF value = "" THEN "false" ELSE "true")
      [] OTHER -> value

\* Variant: setProperty without the schema test of lines 193-195.
SetPropertyUnchecked(name, value) ==
    /\ stimuli < MaxStimuli
    /\ stimuli' = stimuli + 1
    /\ setRequests' = IF name \in DOMAIN setRequests
                       THEN [setRequests EXCEPT ![name] = @ + 1]
                       ELSE setRequests
    /\ last' = [Idle EXCEPT !.op = "setProperty", !.name = name,
                            !.effects = <<"fetch">>,
                            !.msg = <<name, value>>,
                            !.result = "pending"]
    /\ UNCHANGED <<schema, properties, events, socket, registry,
                   batches, eventsRequests, removeRequests>>

\* The call: reject at once for a name outside the schema, else issue the PUT.
SetProperty(name, value) ==
    /\ stimuli < MaxStimuli
    /\ stimuli' = stimuli + 1
    /\ IF name \notin DOMAIN propertyDescriptions
       THEN /\ last' = [Idle EXCEPT !.op = "setProperty", !.name = name,
                                    !.effects = <<"reject">>,
                                    !.result = "rejected",
                                    !.msg = <<"Unavailable property name ", name>>]
            /\ UNCHANGED setRequests
       ELSE /\ setRequests' = [setRequests EXCEPT ![name] = @ + 1]
            /\ last' = [Idle EXCEPT
                          !.op = "setProperty", !.name = name,
                          !.effects = <<"fetch">>,
                          !.msg = <<name, Coerce(propertyDescriptions[name], value)>>,
                          !.result = "pending"]
    /\ UNCHANGED <<schema, properties, events, socket, registry,
                   batches, eventsRequests, removeRequests>>

\* What can come back for one request: a success response with a JSON body, a
\* success response whose body is not JSON, a non-success response, a transport
\* failure.
Outcomes == [kind : {"ok"}, body : Bodies]
              \cup [kind : {"badjson", "status", "neterror"}, body : {EmptyObject}]

\* Variant: the chain without the response.ok test of lines 222-226.
SetPropertyDoneAnyStatus(name, outcome) ==
    /\ setRequests[name] > 0
    /\ setRequests' = [setRequests EXCEPT ![name] = @ - 1]
    /\ IF outcome.kind \in {"ok", "status"}
       THEN /\ properties' = FoldStatus(properties, outcome.body)
            /\ last' = [Idle EXCEPT
                          !.op = "setPropertyDone", !.name = name,
                          !.data = outcome.body, !.outcome = outcome.kind,
                          !.reconciled = TRUE,
                          !.emitted = <<[kind |-> PROPERTY_STATUS,
                                         payload |-> properties']>>,
                          !.invoked = HandleEvent(handlers, PROPERTY_STATUS, properties'),
                          !.effects = <<"emit", "resolve">>,
                          !.result = "resolved"]
       ELSE /\ last' = [Idle EXCEPT !.op = "setPropertyDone", !.name = name,
                                    !.outcome = outcome.kind,
                                    !.effects = <<"log", "reject">>,
                                    !.result = "rejected",
                                    !.msg = <<"Error trying to set ", name>>]
            /\ UNCHANGED properties
    /\ UNCHANGED <<schema, events, socket, registry,
                   batches, eventsRequests, removeRequests, stimuli>>

\* The promise chain of lines 221-232 on the outcome of the PUT.
SetPropertyDone(name, outcome) ==
    /\ setRequests[name] > 0
    /\ setRequests' = [setRequests EXCEPT ![name] = @ - 1]
    /\ IF outcome.kind = "ok"
       THEN OnPropertyStatus("setPropertyDone", name, outcome.body,
                             <<"resolve">>, "resolved")
       ELSE /\ last' = [Idle EXCEPT !.op = "setPropertyDone", !.name = name,
                                    !.outcome = outcome.kind,
                                    !.effects = <<"log", "reject">>,
                                    !.result = "rejected",
                                    !.msg = <<"Error trying to set ", name>>]
            /\ UNCHANGED properties
    /\ UNCHANGED <<schema, events, socket, registry,
                   batches, eventsRequests, removeRequests, stimuli>>

----------------------------------------------------------------------------
(* updateProperties, lines 238-261. *)

\* Object.values(this.propertyDescriptions): the schema in insertion order.
PropertyOrder == <<"level", "on">>

\* Object.assign(target, source).
Assign(target, source) ==
    [k \in DOMAIN target \cup DOMAIN source |->
        IF k \in DOMAIN source THEN source[k] ELSE target[k]]

\* The forEach of lines 253-256 over the first n bodies.
RECURSIVE MergeBodies(_, _)
MergeBodies(bodies, n) ==
    IF n = 0 THEN EmptyObject
    ELSE Assign(MergeBodies(bodies, n - 1), bodies[n])

\* The call: one GET per schema property, all at once.
UpdateProperties ==
    /\ stimuli < MaxStimuli
    /\ stimuli' = stimuli + 1
    /\ batches' = batches + 1
    /\ last' = [Idle EXCEPT !.op = "updateProperties",
                            !.effects = [i \in 1..Len(PropertyOrder) |-> "fetch"]]
    /\ UNCHANGED <<schema, properties, events, socket, registry,
                   setRequests, eventsRequests, removeRequests>>

\* What a read of property name can come back with: a success response with
\* a JSON body (the property's value, null, nothing, or a key outside the
\* schema), a non-success response with a JSON body, a response whose body is
\* not JSON, a transport failure.  ok is response.ok.
ReadBodies(name) ==
    {b \in Bodies : DOMAIN b \subseteq {name}} \cup {[k \in {"extra"} |-> "a"]}

ErrorBodies(name) == {[k \in {name} |-> "b"]}

ReadOutcomes(name) ==
    [kind : {"json"}, ok : {TRUE}, body : ReadBodies(name)]
      \cup [kind : {"json"}, ok : {FALSE}, body : ErrorBodies(name)]
      \cup [kind : {"badjson"}, ok : {TRUE}, body : {EmptyObject}]
      \cup [kind : {"neterror"}, ok : {FALSE}, body : {EmptyObject}]

\* The outcomes of one batch: one per read, in the order of the requests.
BatchOutcomes ==
    {o \in [1..Len(PropertyOrder) -> UNION {ReadOutcomes(n) : n \in SchemaProps}] :
        \A i \in DOMAIN o : o[i] \in ReadOutcomes(PropertyOrder[i])}

\* Promise.all rejects when a fetch rejects or a body is not JSON.
BatchRejects(outcomes) ==
    \E i \in DOMAIN outcomes : outcomes[i].kind \in {"badjson", "neterror"}

\* Variant: a chain that logs the bodies and reconciles nothing.
UpdatePropertiesDoneDropped(outcomes) ==
    /\ batches > 0
    /\ batches' = batches - 1
    /\ last' = [Idle EXCEPT !.op = "updatePropertiesDone",
                            !.outcome = "failed",
                            !.effects = <<"log">>,
                            !.result = "failed"]
    /\ UNCHANGED <<schema, properties, events, socket, registry,
                   setRequests, eventsRequests, removeRequests, stimuli>>

\* The promise chain of lines 248-260 once every read of a batch has settled.
UpdatePropertiesDone(outcomes) ==
    /\ batches > 0
    /\ batches' = batches - 1
    /\ IF BatchRejects(outcomes)
       THEN /\ last' = [Idle EXCEPT !.op = "updatePropertiesDone",
                                    !.outcome = "failed",
                                    !.effects = <<"log">>,
                                    !.result = "failed"]
            /\ UNCHANGED properties
       ELSE OnPropertyStatus("updatePropertiesDone",
                IF \A i \in DOMAIN outcomes : outcomes[i].ok
                THEN "all ok" ELSE "some not ok",
                MergeBodies([i \in DOMAIN outcomes |-> outcomes[i].body],
                            Len(outcomes)),
                <<>>, "merged")
    /\ UNCHANGED <<schema, events, socket, registry,
                   setRequests, eventsRequests, removeRequests, stimuli>>

----------------------------------------------------------------------------
(* updateEvents, lines 286-304, and onEvent, lines 310-320. *)

\* The single-key objects {name: data} of the model: each event name comes
\* with its own data.
Entries ==
    {[name |-> "motion", data |-> "d1"], [name |-> "alarm", data |-> "d2"],
     [name |-> "bogus", data |-> "d3"]}

\* The sequences over S of length at most n.
SeqsUpTo(S, n) == UNION {[1..m -> S] : m \in 0..n}

\* What the events collection can answer.
EventsResponses == SeqsUpTo(Entries, MaxResponse)

\* An inbound event payload: an object, its keys in order.
EventPayloads ==
    {p \in SeqsUpTo(Entries, Cardinality(EventNames)) :
        \A i, j \in DOMAIN p : i # j => p[i].name # p[j].name}

\* The call: nothing without an events address, else one GET.
UpdateEvents ==
    /\ stimuli < MaxStimuli
    /\ stimuli' = stimuli + 1
    /\ IF ~eventsHref
       THEN /\ last' = [Idle EXCEPT !.op = "updateEvents"]
            /\ UNCHANGED eventsRequests
       ELSE /\ eventsRequests' = eventsRequests + 1
            /\ last' = [Idle EXCEPT !.op = "updateEvents",
                                    !.effects = <<"fetch">>,
                                    !.result = "pending"]
    /\ UNCHANGED <<schema, properties, events, socket, registry,
                   setRequests, batches, removeRequests>>

\* What a non-success response to the read of the events collection carries
\* when its body is JSON.
ErrorResponses == {<<[name |-> "bogus", data |-> "d3"]>>}

\* What the read of the events collection can come back with: a success
\* response with a JSON body, a non-success response with a JSON body, a
\* response whose body is not JSON, a transport failure.  ok is response.ok.
EventsOutcomes ==
    [kind : {"json"}, ok : {TRUE}, body : EventsResponses]
      \cup [kind : {"json"}, ok : {FALSE}, body : ErrorResponses]
      \cup [kind : {"badjson", "neterror"}, ok : {FALSE}, body : {<<>>}]

\* The promise chain of lines 297-303: a JSON body replaces this.events,
\* whatever the status of the response.
UpdateEventsDone(outcome) ==
    /\ eventsRequests > 0
    /\ eventsRequests' = eventsRequests - 1
    /\ IF outcome.kind = "json"
       THEN /\ events' = outcome.body
            /\ last' = [Idle EXCEPT !.op = "updateEventsDone",
                                    !.outcome = IF outcome.ok THEN "ok" ELSE "status",
                                    !.evdata = outcome.body,
                                    !.result = "resolved"]
       ELSE /\ last' = [Idle EXCEPT !.op = "updateEventsDone",
                                    !.outcome = outcome.kind,
                                    !.effects = <<"log">>,
                                    !.result = "resolved"]
            /\ UNCHANGED events
    /\ UNCHANGED <<schema, properties, socket, registry,
                   setRequests, batches, removeRequests, stimuli>>

\* The entries of data whose key is an own key of the event schema, in order.
KnownEvents(data) ==
    SelectSeq(data, LAMBDA e : e.name \in eventDescriptions)

\* The object `events` built by the loop of lines 311-318.
EventDelta(data) ==
    [n \in {KnownEvents(data)[i].name : i \in DOMAIN KnownEvents(data)} |->
        (CHOOSE e \in {KnownEvents(data)[i] : i \in DOMAIN KnownEvents(data)} :
            e.name = n).data]

\* Variant: the entries put at the front (unshift for push).
PushEventsFront(evs, data) == KnownEvents(data) \o evs

\* this.events after the pushes of line 317.
PushEvents(evs, data) == evs \o KnownEvents(data)

\* The whole of onEvent(data).
OnEvent(data) ==
    /\ events' = PushEvents(events, data)
    /\ last' = [Idle EXCEPT
                  !.op = "onEvent", !.evdata = data,
                  !.emitted = <<[kind |-> EVENT_OCCURRED, payload |-> EventDelta(data)]>>,
                  !.invoked = HandleEvent(handlers, EVENT_OCCURRED, EventDelta(data)),
                  !.effects = <<"emit">>]

----------------------------------------------------------------------------
(* The websocket, lines 120-161. *)

\* The message built by lines 132-138: every event name with an empty object.
SubscriptionMessage ==
    [messageType |-> "addEventSubscription",
     data |-> [name \in eventDescriptions |-> EmptyObject]]

\* Variant: the listener of 'open' without the test of lines 129-131.
WsOpenAlwaysSends ==
    /\ ws = "connecting"
    /\ ws' = "open"
    /\ wsSent' = Append(wsSent, SubscriptionMessage)
    /\ last' = [Idle EXCEPT !.op = "wsOpen", !.effects = <<"send">>]
    /\ UNCHANGED <<schema, properties, events, wsListening, wsOpened, wsCloseCalls,
                   registry, setRequests, batches, eventsRequests, removeRequests,
                   stimuli>>

\* The listener of 'open' (once), lines 128-140.
WsOpen ==
    /\ ws = "connecting"
    /\ ws' = "open"
    /\ wsSent' = IF Cardinality(eventDescriptions) = 0
                 THEN wsSent
                 ELSE Append(wsSent, SubscriptionMessage)
    /\ last' = [Idle EXCEPT !.op = "wsOpen",
                            !.effects = IF Cardinality(eventDescriptions) = 0
                                        THEN <<>> ELSE <<"send">>]
    /\ UNCHANGED <<schema, properties, events, wsListening, wsOpened, wsCloseCalls,
                   registry, setRequests, batches, eventsRequests, removeRequests,
                   stimuli>>

\* A message whose messageType is neither propertyStatus nor event.
OtherMessage == [messageType |-> "connected", data |-> [level |-> "a"]]

\* Variant: the listener of 'message' with a final else that reconciles.
WsMessageElseStatus(message) ==
    /\ ws = "open"
    /\ wsListening
    /\ stimuli < MaxStimuli
    /\ stimuli' = stimuli + 1
    /\ IF message.messageType = "event"
       THEN /\ OnEvent(message.data)
            /\ UNCHANGED properties
       ELSE /\ OnPropertyStatus(IF message.messageType = "propertyStatus"
                                 THEN "onPropertyStatus" ELSE "wsMessage",
                                 IF message.messageType = "propertyStatus"
                                 THEN "message" ELSE message.messageType,
                                 message.data, <<>>, "none")
            /\ UNCHANGED events
    /\ UNCHANGED <<schema, socket, registry, setRequests, batches, eventsRequests,
                   removeRequests>>

\* The listener of 'message', lines 143-150.  The browser delivers messages
\* only while the connection is open.
WsMessage(message) ==
    /\ ws = "open"
    /\ wsListening
    /\ stimuli < MaxStimuli
    /\ stimuli' = stimuli + 1
    /\ IF message.messageType = "propertyStatus"
       THEN /\ OnPropertyStatus("onPropertyStatus", "message", message.data, <<>>, "none")
            /\ UNCHANGED events
       ELSE IF message.messageType = "event"
       THEN /\ OnEvent(message.data)
            /\ UNCHANGED properties
       ELSE /\ last' = [Idle EXCEPT !.op = "wsMessage",
                                    !.name = message.messageType]
            /\ UNCHANGED <<properties, events>>
    /\ UNCHANGED <<schema, socket, registry, setRequests, batches, eventsRequests,
                   removeRequests>>

\* Variant: a listener of 'close' and 'error' that leaves the listeners on.
WsClosedKeepListening ==
    /\ ws \in {"connecting", "open", "closing"}
    /\ ws' = "closed"
    /\ last' = [Idle EXCEPT !.op = "wsClosed"]
    /\ UNCHANGED <<schema, properties, events, wsListening, wsSent, wsOpened,
                   wsCloseCalls, registry, setRequests, batches, eventsRequests,
                   removeRequests, stimuli>>

\* The listener of 'close' and 'error', lines 152-156: the connection has
\* ended (the browser sets readyState to CLOSED, then fires error and close).
WsClosed ==
    /\ ws \in {"connecting", "open", "closing"}
    /\ ws' = "closed"
    /\ wsListening' = FALSE
    /\ last' = [Idle EXCEPT !.op = "wsClosed"]
    /\ UNCHANGED <<schema, properties, events, wsSent, wsOpened, wsCloseCalls,
                   registry, setRequests, batches, eventsRequests, removeRequests,
                   stimuli>>

\* WebSocket.close(): starts the closing handshake unless already closing or closed.
WsAfterClose(state) ==
    IF state \in {"connecting", "open"} THEN "closing" ELSE state

----------------------------------------------------------------------------
(* cleanup, lines 166-169, subscribe, lines 171-183, removeThing, lines 66-88. *)

\* this.ws.close() throws a TypeError when this.ws is undefined.
CleanupThrows == ws = "none"

\* The handlers registered for some kind.
Registered == UNION {{handlers[k][i] : i \in DOMAIN handlers[k]} : k \in DOMAIN handlers}

\* released once the teardown named by has released the registered handlers.
ReleasedBy(by) == released \cup {[h |-> x, by |-> by] : x \in Registered}

\* Variant: cleanup() that releases the subscribers and leaves the socket.
DoCleanupKeepSocket ==
    /\ handlers' = ModelCleanup(handlers)
    /\ UNCHANGED <<ws, wsCloseCalls, wsListening, wsSent, wsOpened>>

\* Variant: cleanup() that closes the socket and keeps the subscribers.
DoCleanupKeepHandlers ==
    /\ ws' = WsAfterClose(ws)
    /\ wsCloseCalls' = wsCloseCalls + 1
    /\ UNCHANGED <<handlers, wsListening, wsSent, wsOpened>>

\* The state part of cleanup() when it does not throw.
DoCleanup ==
    /\ ws' = WsAfterClose(ws)
    /\ wsCloseCalls' = wsCloseCalls + 1
    /\ handlers' = ModelCleanup(handlers)
    /\ UNCHANGED <<wsListening, wsSent, wsOpened>>

\* A direct call of cleanup().
Cleanup ==
    /\ stimuli < MaxStimuli
    /\ stimuli' = stimuli + 1
    /\ IF CleanupThrows
       THEN /\ last' = [Idle EXCEPT !.op = "cleanup", !.result = "throws"]
            /\ UNCHANGED <<socket, registry>>
       ELSE /\ DoCleanup
            /\ released' = ReleasedBy("cleanup")
            /\ last' = [Idle EXCEPT !.op = "cleanup",
                                    !.effects = <<"close", "release">>]
    /\ UNCHANGED <<schema, properties, events, setRequests, batches,
                   eventsRequests, removeRequests>>

\* Handlers are interchangeable and each is subscribed once: the next one
\* subscribed is the first of HandlerOrder that was never registered.
HandlerOrder == <<"h1", "h2", "h3">>
Subscribed == Registered \cup {r.h : r \in released}
NextHandler ==
    IF \A i \in DOMAIN HandlerOrder : HandlerOrder[i] \in Subscribed THEN "none"
    ELSE HandlerOrder[CHOOSE i \in DOMAIN HandlerOrder :
            /\ HandlerOrder[i] \notin Subscribed
            /\ \A j \in 1..(i - 1) : HandlerOrder[j] \in Subscribed]

\* Variant: a subscribe that notifies every handler of PROPERTY_STATUS.
SubscribeNotifiesAll(event, handler) ==
    /\ handler = NextHandler
    /\ stimuli < MaxStimuli
    /\ stimuli' = stimuli + 1
    /\ handlers' = ModelSubscribe(handlers, event, handler)
    /\ UNCHANGED released
    /\ last' = [Idle EXCEPT
                  !.op = "subscribe", !.name = event,
                  !.invoked = IF event = PROPERTY_STATUS
                              THEN HandleEvent(handlers', PROPERTY_STATUS, properties)
                              ELSE <<>>,
                  !.effects = IF event \in {PROPERTY_STATUS, EVENT_OCCURRED}
                              THEN <<>> ELSE <<"warn">>]
    /\ UNCHANGED <<schema, properties, events, socket, setRequests, batches,
                   eventsRequests, removeRequests>>

\* subscribe(event, handler).
Subscribe(event, handler) ==
    /\ handler = NextHandler
    /\ stimuli < MaxStimuli
    /\ stimuli' = stimuli + 1
    /\ handlers' = ModelSubscribe(handlers, event, handler)
    /\ UNCHANGED released
    /\ last' = [Idle EXCEPT
                  !.op = "subscribe", !.name = event,
                  !.invoked = IF event = PROPERTY_STATUS
                              THEN <<[h |-> handler, payload |-> properties]>>
                              ELSE <<>>,
                  !.effects = IF event \in {PROPERTY_STATUS, EVENT_OCCURRED}
                              THEN <<>> ELSE <<"warn">>]
    /\ UNCHANGED <<schema, properties, events, socket, setRequests, batches,
                   eventsRequests, removeRequests>>

\* The call of removeThing(): one DELETE.
RemoveThing ==
    /\ stimuli < MaxStimuli
    /\ stimuli' = stimuli + 1
    /\ removeRequests' = removeRequests + 1
    /\ last' = [Idle EXCEPT !.op = "removeThing", !.effects = <<"fetch">>,
                            !.result = "pending"]
    /\ UNCHANGED <<schema, properties, events, socket, registry, setRequests,
                   batches, eventsRequests>>

\* Variant: the chain without the response.ok test of line 76.
RemoveThingDoneAnyStatus(kind) ==
    /\ removeRequests > 0
    /\ removeRequests' = removeRequests - 1
    /\ IF kind \in {"ok", "status"} /\ ~CleanupThrows
       THEN /\ DoCleanup
            /\ released' = ReleasedBy("removeThing")
            /\ last' = [Idle EXCEPT !.op = "removeThingDone",
                                    !.outcome = kind,
                                    !.effects = <<"log", "close", "release", "resolve">>,
                                    !.result = "resolved"]
       ELSE /\ last' = [Idle EXCEPT
                          !.op = "removeThingDone",
                          !.outcome = kind,
                          !.effects = <<"log", "reject">>,
                          !.result = "rejected",
                          !.msg = <<"Error occurred while removing thing">>]
            /\ UNCHANGED <<socket, registry>>
    /\ UNCHANGED <<schema, properties, events, setRequests, batches,
                   eventsRequests, stimuli>>

\* The promise chain of lines 75-86 on the outcome of the DELETE.
RemoveThingDone(kind) ==
    /\ removeRequests > 0
    /\ removeRequests' = removeRequests - 1
    /\ IF kind = "ok" /\ ~CleanupThrows
       THEN /\ DoCleanup
            /\ released' = ReleasedBy("removeThing")
            /\ last' = [Idle EXCEPT !.op = "removeThingDone",
                                    !.outcome = kind,
                                    !.effects = <<"log", "close", "release", "resolve">>,
                                    !.result = "resolved"]
       ELSE /\ last' = [Idle EXCEPT
                          !.op = "removeThingDone",
                          !.outcome = kind,
                          !.effects = IF kind = "status" THEN <<"reject">>
                                      ELSE <<"log", "reject">>,
                          !.result = "rejected",
                          !.msg = IF kind = "status"
                                  THEN <<"Failed removing thing ", "statusText">>
                                  ELSE <<"Error occurred while removing thing">>]
            /\ UNCHANGED <<socket, registry>>
    /\ UNCHANGED <<schema, properties, events, setRequests, batches,
                   eventsRequests, stimuli>>

----------------------------------------------------------------------------
(* The constructor, lines 16-61, and the specification. *)

\* The descriptions a model is constructed from: a full one, one without an
\* events link and without events, one without even an href.
Descriptions ==
    {[href |-> TRUE, eventsLink |-> TRUE,
      properties |-> [level |-> "number", on |-> "boolean"], events |-> SchemaEvents],
     [href |-> TRUE, eventsLink |-> FALSE,
      properties |-> [level |-> "number", on |-> "boolean"], events |-> {}],
     [href |-> FALSE, eventsLink |-> FALSE,
      properties |-> [level |-> "number", on |-> "boolean"], events |-> {}]}

\* The state when the constructor returns: the websocket is being opened when
\* the description has an href, the events read is in flight when it has an
\* events link, and one batch of property reads is in flight.
Init ==
    /\ \E description \in Descriptions :
          /\ href = description.href
          /\ eventsHref = description.eventsLink
          /\ propertyDescriptions = description.properties
          /\ eventDescriptions = description.events
    /\ properties = EmptyObject
    /\ events = <<>>
    /\ ws = IF href THEN "connecting" ELSE "none"
    /\ wsListening = href
    /\ wsSent = <<>>
    /\ wsOpened = IF href THEN 1 ELSE 0
    /\ wsCloseCalls = 0
    /\ handlers = [k \in Kinds |-> <<>>]
    /\ setRequests = [n \in SchemaProps |-> 0]
    /\ batches = 1
    /\ eventsRequests = IF eventsHref THEN 1 ELSE 0
    /\ removeRequests = 0
    /\ stimuli = 0
    /\ released = {}
    /\ last = Idle

Next ==
    \/ \E name \in PropNames, value \in SetInputs : SetProperty(name, value)
    \/ \E name \in SchemaProps, outcome \in Outcomes : SetPropertyDone(name, outcome)
    \/ \E data \in Payloads : CallOnPropertyStatus(data)
    \/ UpdateProperties
    \/ \E outcomes \in BatchOutcomes : UpdatePropertiesDone(outcomes)
    \/ UpdateEvents
    \/ \E outcome \in EventsOutcomes : UpdateEventsDone(outcome)
    \/ WsOpen
    \/ \E data \in JsonPayloads :
          WsMessage([messageType |-> "propertyStatus", data |-> data])
    \/ \E data \in EventPayloads :
          WsMessage([messageType |-> "event", data |-> data])
    \/ WsMessage(OtherMessage)
    \/ WsClosed
    \/ Cleanup
    \/ \E event \in Kinds, handler \in HandlerIds : Subscribe(event, handler)
    \/ RemoveThing
    \/ \E kind \in {"ok", "status", "neterror"} : RemoveThingDone(kind)

Spec == Init /\ [][Next]_vars

\* The model under property traffic only: writes, reads and status messages.
NextProperties ==
    \/ \E name \in PropNames, value \in SetInputs : SetProperty(name, value)
    \/ \E name \in SchemaProps, outcome \in Outcomes : SetPropertyDone(name, outcome)
    \/ \E data \in Payloads : CallOnPropertyStatus(data)
    \/ UpdateProperties
    \/ \E outcomes \in BatchOutcomes : UpdatePropertiesDone(outcomes)
    \/ WsOpen
    \/ \E data \in JsonPayloads :
          WsMessage([messageType |-> "propertyStatus", data |-> data])
    \/ WsClosed

SpecProperties == Init /\ [][NextProperties]_vars

\* The model under event traffic only: event messages and reads of the
\* events collection.
NextEvents ==
    \/ UpdateEvents
    \/ \E outcome \in EventsOutcomes : UpdateEventsDone(outcome)
    \/ WsOpen
    \/ \E data \in EventPayloads :
          WsMessage([messageType |-> "event", data |-> data])
    \/ WsClosed

SpecEvents == Init /\ [][NextEvents]_vars

\* The model under teardown: subscribers, removeThing and cleanup, with the
\* constructor's reads to fill the cache and the event list.  What the reads
\* deliver plays no part in a teardown: each property read answers with a
\* value or fails, the events read answers with at most one entry.
PlainBatches ==
    {o \in BatchOutcomes :
        \A i \in DOMAIN o :
            \/ o[i].kind = "neterror"
            \/ o[i].kind = "json" /\ o[i].ok /\ PropertyOrder[i] \in DOMAIN o[i].body
                  /\ o[i].body[PropertyOrder[i]] = "a"}

ShortResponses == {r \in EventsResponses : Len(r) <= 1}

NextTeardown ==
    \/ \E event \in Kinds, handler \in HandlerIds : Subscribe(event, handler)
    \/ Cleanup
    \/ RemoveThing
    \/ \E kind \in {"ok", "status", "neterror"} : RemoveThingDone(kind)
    \/ \E outcomes \in PlainBatches : UpdatePropertiesDone(outcomes)
    \/ \E response \in ShortResponses :
          UpdateEventsDone([kind |-> "json", ok |-> TRUE, body |-> response])
    \/ WsOpen
    \/ WsClosed

SpecTeardown == Init /\ [][NextTeardown]_vars

\* The model under stream traffic: the connection opens, carries messages of
\* every kind and ends, by itself or after a teardown, while the
\* constructor's property reads complete.
NextStream ==
    \/ WsOpen
    \/ \E data \in JsonPayloads :
          WsMessage([messageType |-> "propertyStatus", data |-> data])
    \/ \E data \in EventPayloads :
          WsMessage([messageType |-> "event", data |-> data])
    \/ WsMessage(OtherMessage)
    \/ WsClosed
    \/ Cleanup
    \/ \E outcomes \in PlainBatches : UpdatePropertiesDone(outcomes)

SpecStream == Init /\ [][NextStream]_vars

\* The batches in which every read succeeds: a success response, a JSON body.
\* The first read answers with any body, the others with their property's
\* value.
SuccessBatches ==
    {o \in BatchOutcomes :
        /\ \A i \in DOMAIN o : o[i].kind = "json" /\ o[i].ok
        /\ \A i \in DOMAIN o \ {1} : o[i].body = [k \in {PropertyOrder[i]} |-> "b"]}

\* The model after construction when every property read of the constructor
\* succeeds: the batch completes at some time, before, between or after the
\* events read, the opening of the stream and the messages it carries.
InitialBatchDone == \E outcomes \in SuccessBatches : UpdatePropertiesDone(outcomes)

\* The stream's messages in this setting: a push for `level`, one event.
LevelPayloads == {p \in JsonPayloads : DOMAIN p = {"level"}}
ShortEventPayloads == {p \in EventPayloads : Len(p) = 1}

NextInitialFetch ==
    \/ InitialBatchDone
    \/ \E response \in ShortResponses :
          UpdateEventsDone([kind |-> "json", ok |-> TRUE, body |-> response])
    \/ WsOpen
    \/ \E data \in LevelPayloads :
          WsMessage([messageType |-> "propertyStatus", data |-> data])
    \/ \E data \in ShortEventPayloads :
          WsMessage([messageType |-> "event", data |-> data])
    \/ WsClosed

SpecInitialFetch ==
    Init /\ [][NextInitialFetch]_vars /\ WF_vars(InitialBatchDone)

----------------------------------------------------------------------------
(* Properties of the model. *)

Range(seq) == {seq[i] : i \in DOMAIN seq}

\* after is before with the defined, non-null values of data for the keys of
\* the schema written over it, and nothing else changed.
IsFoldOf(before, data, after) ==
    LET written == {k \in DOMAIN data \cap DOMAIN propertyDescriptions :
                       data[k] \notin {NULL, UNDEFINED}}
    IN /\ DOMAIN after = DOMAIN before \cup written
       /\ \A k \in written : after[k] = data[k]
       /\ \A k \in DOMAIN before \ written : after[k] = before[k]

\* x occurs in seq before y does.
Precedes(seq, x, y) ==
    \E i, j \in DOMAIN seq : i < j /\ seq[i] = x /\ seq[j] = y

\* C1: in every reachable state, every key of `properties` is a key of the
\* property schema; a property name outside the schema is never stored.
C1_PropertiesWithinSchema ==
    DOMAIN properties \subseteq DOMAIN propertyDescriptions

\* C1's case: a batch whose merged map carries a key outside the schema next
\* to a schema key with a value has been reconciled.
C1_Witness ==
    /\ last.op = "updatePropertiesDone"
    /\ last.reconciled
    /\ {"extra", "level"} \subseteq DOMAIN last.data
    /\ last.data["extra"] \in RealValues
    /\ last.data["level"] \in RealValues
    /\ "level" \in DOMAIN properties

\* C2: across every reconciliation, a schema key K that has a cached value
\* keeps it when the incoming map carries null or undefined for K or does not
\* mention K.
C2_NoInformationKeepsValue ==
    [][last'.reconciled =>
         \A K \in DOMAIN properties :
             (K \notin DOMAIN last'.data \/ last'.data[K] \in {NULL, UNDEFINED})
                 => (K \in DOMAIN properties' /\ properties'[K] = properties[K])]_vars

\* C2's case: a batch carrying null for the cached key `level` and a value for
\* `on` has been reconciled, and `level` still holds a value.
C2_Witness ==
    /\ last.op = "updatePropertiesDone"
    /\ last.reconciled
    /\ {"level", "on"} \subseteq DOMAIN last.data
    /\ last.data["level"] = NULL
    /\ last.data["on"] \in RealValues
    /\ "level" \in DOMAIN properties
    /\ properties["level"] \in RealValues

\* C5: setProperty with a name outside the schema rejects with a message that
\* contains the name, issues no request, leaves `properties` unchanged and
\* emits nothing.
C5_UnknownNameRejected ==
    [][(last'.op = "setProperty" /\ last'.name \notin DOMAIN propertyDescriptions) =>
         /\ last'.result = "rejected"
         /\ last'.name \in Range(last'.msg)
         /\ "fetch" \notin Range(last'.effects)
         /\ UNCHANGED <<setRequests, batches, eventsRequests, removeRequests>>
         /\ properties' = properties
         /\ last'.emitted = <<>>
         /\ last'.invoked = <<>>]_vars

\* C5's case: setProperty("extra", ...) was rejected on a model whose cache
\* holds a value.
C5_Witness ==
    /\ last.op = "setProperty"
    /\ last.name = "extra"
    /\ last.result = "rejected"
    /\ properties # EmptyObject

\* C6: setProperty with a schema name issues exactly one write, and the write
\* is never issued again.  A success response with its echo is folded into
\* `properties` and PROPERTY_STATUS is emitted before the result resolves; a
\* non-success response or a transport failure rejects with a message naming
\* the property, leaves `properties` unchanged and emits nothing.
C6_WriteOnceThenFoldOrReject ==
    [][/\ (last'.op = "setProperty" /\ last'.name \in DOMAIN propertyDescriptions) =>
            /\ last'.effects = <<"fetch">>
            /\ setRequests' = [setRequests EXCEPT ![last'.name] = @ + 1]
            /\ properties' = properties
            /\ last'.emitted = <<>>
       /\ last'.op = "setPropertyDone" =>
            /\ setRequests' = [setRequests EXCEPT ![last'.name] = @ - 1]
            /\ "fetch" \notin Range(last'.effects)
            /\ last'.outcome = "ok" =>
                 /\ IsFoldOf(properties, last'.data, properties')
                 /\ last'.emitted = <<[kind |-> PROPERTY_STATUS, payload |-> properties']>>
                 /\ Precedes(last'.effects, "emit", "resolve")
                 /\ last'.result = "resolved"
            /\ last'.outcome \in {"status", "neterror"} =>
                 /\ last'.result = "rejected"
                 /\ last'.name \in Range(last'.msg)
                 /\ properties' = properties
                 /\ last'.emitted = <<>>]_vars

\* C6's case: a write of a schema property came back with a success response
\* echoing a value, which is now cached.
C6_Witness ==
    /\ last.op = "setPropertyDone"
    /\ last.outcome = "ok"
    /\ last.result = "resolved"
    /\ last.name \in DOMAIN last.data
    /\ last.data[last.name] \in RealValues
    /\ last.name \in DOMAIN properties
    /\ properties[last.name] = last.data[last.name]

\* C9: a reconciliation that is given the map the reconciliation just before
\* it was given leaves `properties` as it found it, and each of the two emits
\* PROPERTY_STATUS exactly once, with the same content.
C9_ReconciliationIdempotent ==
    [][(last.reconciled /\ last'.reconciled /\ last'.data = last.data) =>
         /\ properties' = properties
         /\ Len(last.emitted) = 1
         /\ Len(last'.emitted) = 1
         /\ last'.emitted = last.emitted
         /\ last'.emitted[1].kind = PROPERTY_STATUS]_vars

\* C9's case: the same map, carrying a value for a schema key, was reconciled
\* twice in a row.
C9_Witness ==
    /\ last.reconciled
    /\ last.again
    /\ \E k \in DOMAIN last.data \cap DOMAIN propertyDescriptions :
          last.data[k] \in RealValues /\ properties[k] = last.data[k]

\* C3 as claimed: every entry of `events` has a key of the event schema.
C3_EventKeysWithinSchema ==
    \A i \in DOMAIN events : events[i].name \in eventDescriptions

\* C4 as claimed: `events` only grows at its end; what it held stays a prefix
\* of what it holds.
C4_EventsAppendOnly ==
    [][/\ Len(events) <= Len(events')
       /\ SubSeq(events', 1, Len(events)) = events]_vars

\* The i-th smallest member of a set of indices.
NthOf(indices, i) ==
    CHOOSE k \in indices : Cardinality({j \in indices : j <= k}) = i

\* C10: onEvent emits EVENT_OCCURRED exactly once, with the map of exactly the
\* entries of the payload whose key is in the event schema, and appends those
\* same entries to `events`, one single-key entry each, in the payload's
\* order, leaving the earlier entries as they were.
C10_EventDeltaAndHistory ==
    [][last'.op = "onEvent" =>
         LET data == last'.evdata
             known == {i \in DOMAIN data : data[i].name \in eventDescriptions}
         IN /\ Len(last'.emitted) = 1
            /\ last'.emitted[1].kind = EVENT_OCCURRED
            /\ DOMAIN last'.emitted[1].payload = {data[i].name : i \in known}
            /\ \A i \in known :
                  last'.emitted[1].payload[data[i].name] = data[i].data
            /\ Len(events') = Len(events) + Cardinality(known)
            /\ SubSeq(events', 1, Len(events)) = events
            /\ \A i \in 1..Cardinality(known) :
                  events'[Len(events) + i] = data[NthOf(known, i)]]_vars

\* C10's case: a payload of three keys, the middle one outside the schema,
\* the other two with different data, arrived when `events` already held
\* entries.
C10_Witness ==
    /\ last.op = "onEvent"
    /\ Len(last.evdata) = 3
    /\ last.evdata[1].name = "alarm"
    /\ last.evdata[2].name = "bogus"
    /\ last.evdata[3].name = "motion"
    /\ last.evdata[1].data # last.evdata[3].data
    /\ Len(events) > 2
    /\ eventDescriptions = SchemaEvents

\* A teardown ran: cleanup() got past this.ws.close().
TeardownRan(l) ==
    \/ l.op = "cleanup" /\ l.result # "throws"
    \/ l.op = "removeThingDone" /\ l.result = "resolved"

\* C7 as claimed: every model has exactly one connection, and close() is
\* called on it at most once whatever the teardown calls.
C7_OneConnectionClosedOnce ==
    /\ wsOpened = 1
    /\ ws # "none"
    /\ wsCloseCalls <= 1

\* C7 as amended: a model built with an href has exactly one connection,
\* opened by the constructor and never replaced, a model built without an href
\* has none; every teardown that runs calls close() on the connection, once
\* per teardown, and a connection that is closing or closed stays so.
C7_OneConnectionClosedPerTeardown ==
    [][/\ wsOpened = (IF href THEN 1 ELSE 0)
       /\ wsOpened' = wsOpened
       /\ (ws = "none") = ~href
       /\ (ws' = "none") = ~href
       /\ TeardownRan(last') =>
            /\ ws # "none"
            /\ wsCloseCalls' = wsCloseCalls + 1
            /\ ws' \in {"closing", "closed"}
       /\ ~TeardownRan(last') => wsCloseCalls' = wsCloseCalls
       /\ ws \in {"closing", "closed"} => ws' \in {"closing", "closed"}]_vars

\* C7's case: two teardowns have run on one connection.
C7_Witness ==
    /\ wsOpened = 1
    /\ wsCloseCalls = 2
    /\ TeardownRan(last)

C11_EmitsWholeCacheOnce ==
    [][last'.reconciled =>
         /\ IsFoldOf(properties, last'.data, properties')
         /\ last'.emitted = <<[kind |-> PROPERTY_STATUS, payload |-> properties']>>
         /\ \A i \in DOMAIN last'.invoked : last'.invoked[i].payload = properties'
         /\ Len(SelectSeq(last'.effects, LAMBDA e : e = "emit")) = 1]_vars

\* C11's case: a payload with a key, holding only unknown keys or null, was
\* reconciled on a cache that holds a value; the whole cache was emitted.
C11_Witness ==
    /\ last.reconciled
    /\ DOMAIN last.data # {}
    /\ \A k \in DOMAIN last.data :
          k \notin DOMAIN propertyDescriptions \/ last.data[k] = NULL
    /\ properties # EmptyObject
    /\ last.emitted = <<[kind |-> PROPERTY_STATUS, payload |-> properties]>>

\* C12 as claimed: updateProperties issues one read per schema property; when
\* a read of the batch fails (transport failure, or a non-success response)
\* nothing is folded and nothing is emitted; when all succeed the merged
\* responses are reconciled in one call.
C12_BatchAllOrNothing ==
    [][/\ last'.op = "updateProperties" =>
            last'.effects = [i \in 1..Cardinality(DOMAIN propertyDescriptions) |-> "fetch"]
       /\ last'.op = "updatePropertiesDone" =>
            IF last'.outcome = "failed" \/ last'.name = "some not ok"
            THEN properties' = properties /\ last'.emitted = <<>>
            ELSE /\ last'.reconciled
                 /\ Len(last'.emitted) = 1
                 /\ IsFoldOf(properties, last'.data, properties')]_vars

\* C13: over the life of the connection at most one message is sent.  The
\* listener of open sends exactly one addEventSubscription whose data has
\* every event name of the schema, each with an empty object, when the schema
\* is not empty, and nothing when it is empty; nothing else sends.
C13_OneSubscriptionMessage ==
    [][/\ Len(wsSent') <= 1
       /\ last'.op = "wsOpen" =>
            /\ wsSent = <<>>
            /\ IF eventDescriptions # {}
               THEN /\ Len(wsSent') = 1
                    /\ wsSent'[1].messageType = "addEventSubscription"
                    /\ DOMAIN wsSent'[1].data = eventDescriptions
                    /\ \A n \in eventDescriptions : wsSent'[1].data[n] = EmptyObject
                    /\ last'.effects = <<"send">>
               ELSE /\ wsSent' = <<>>
                    /\ last'.effects = <<>>
       /\ last'.op # "wsOpen" => wsSent' = wsSent]_vars

\* C13's case: a connection of a model with events has opened, carried event
\* messages and ended, and one subscription message was sent in all.
C13_Witness ==
    /\ ws = "closed"
    /\ eventDescriptions = SchemaEvents
    /\ Len(wsSent) = 1
    /\ DOMAIN wsSent[1].data = SchemaEvents
    /\ events # <<>>

\* C14: an inbound message is dispatched by its messageType.  propertyStatus
\* runs onPropertyStatus on its data and leaves `events`; event runs onEvent
\* on its data and leaves `properties`; any other messageType leaves both and
\* emits nothing.
C14_DispatchByMessageType ==
    [][/\ (last'.op = "onPropertyStatus" /\ last'.name = "message") =>
            /\ last'.reconciled
            /\ IsFoldOf(properties, last'.data, properties')
            /\ last'.emitted = <<[kind |-> PROPERTY_STATUS, payload |-> properties']>>
            /\ events' = events
       /\ last'.op = "onEvent" =>
            /\ events' = PushEvents(events, last'.evdata)
            /\ Len(last'.emitted) = 1
            /\ last'.emitted[1].kind = EVENT_OCCURRED
            /\ properties' = properties
       /\ last'.op = "wsMessage" =>
            /\ last'.name \notin {"propertyStatus", "event"}
            /\ properties' = properties
            /\ events' = events
            /\ last'.emitted = <<>>
            /\ last'.invoked = <<>>]_vars

\* C14's case: a message of another messageType, carrying a value for a
\* schema property the cache does not hold, arrived after an event message.
C14_Witness ==
    /\ last.op = "wsMessage"
    /\ last.name = "connected"
    /\ "level" \notin DOMAIN properties
    /\ events # <<>>

\* The step was the listener of 'message'.
MessageStep(l) ==
    \/ l.op = "onPropertyStatus" /\ l.name = "message"
    \/ l.op = "onEvent"
    \/ l.op = "wsMessage"

\* C15: when the connection reports close or error its listeners are
\* detached; from then on the connection stays closed, the listeners stay
\* detached, no step is the message listener, and no connection is ever
\* opened beyond the constructor's.
C15_CloseIsTerminal ==
    [][/\ last'.op = "wsClosed" => (ws' = "closed" /\ ~wsListening')
       /\ ws = "closed" =>
            /\ ws' = "closed"
            /\ ~wsListening'
            /\ ~MessageStep(last')
       /\ MessageStep(last') => (wsListening /\ ws = "open")
       /\ wsOpened' = wsOpened]_vars

\* C15's case: a connection that carried an event message has closed, and the
\* model went on working: the constructor's reads completed after the close.
C15_Witness ==
    /\ ws = "closed"
    /\ ~wsListening
    /\ events # <<>>
    /\ last.op = "updatePropertiesDone"
    /\ last.reconciled

C17_EventsFullResync ==
    [][/\ last'.op = "updateEvents" =>
            /\ events' = events
            /\ IF eventsHref
               THEN /\ last'.effects = <<"fetch">>
                    /\ eventsRequests' = eventsRequests + 1
               ELSE /\ last'.effects = <<>>
                    /\ eventsRequests' = eventsRequests
       /\ last'.op = "updateEventsDone" =>
            /\ eventsRequests' = eventsRequests - 1
            /\ "fetch" \notin Range(last'.effects)
            /\ last'.outcome = "ok" => events' = last'.evdata
            /\ last'.outcome # "ok" => events' = events
       /\ last'.op \in {"updateEvents", "updateEventsDone"} =>
            (last'.emitted = <<>> /\ last'.invoked = <<>>)]_vars

\* The constructor's batch has just been reconciled: every defined non-null
\* value it fetched for a schema property is cached, and PROPERTY_STATUS was
\* emitted with the cache.
InitialBatchLanded ==
    /\ last.op = "updatePropertiesDone"
    /\ last.reconciled
    /\ \A K \in DOMAIN last.data \cap DOMAIN propertyDescriptions :
          last.data[K] \notin {NULL, UNDEFINED} =>
              (K \in DOMAIN properties /\ properties[K] = last.data[K])
    /\ last.emitted = <<[kind |-> PROPERTY_STATUS, payload |-> properties]>>

\* C18: the constructor returns with `properties` and `events` empty and its
\* reads in flight; when every property read succeeds, whatever the order of
\* the completions and of the stream's messages, there comes a state where
\* the fetched values are cached and PROPERTY_STATUS has been emitted.
C18_InitialFetchLands ==
    /\ (properties = EmptyObject /\ events = <<>> /\ batches = 1 /\ last = Idle)
    /\ <>InitialBatchLanded

\* C18's case: the batch landed with a value for `level` after the stream had
\* opened and delivered an event.
C18_Witness ==
    /\ InitialBatchLanded
    /\ "level" \in DOMAIN last.data
    /\ last.data["level"] \in RealValues
    /\ ws = "open"
    /\ events # <<>>
    /\ stimuli > 0

\* C19: subscribe(kind, h) registers h after the handlers already registered
\* for kind and raises nothing, whatever the kind.  For PROPERTY_STATUS it
\* invokes h, and only h, exactly once with the current `properties`; for
\* any other kind it invokes nothing.  The cache is left as it is.
C19_SubscribeReplaysCache ==
    [][last'.op = "subscribe" =>
         LET kind == last'.name
             h == handlers'[kind][Len(handlers'[kind])]
         IN /\ handlers'[kind] = Append(handlers[kind], h)
            /\ h \notin Registered
            /\ \A k \in DOMAIN handlers \ {kind} : handlers'[k] = handlers[k]
            /\ kind = PROPERTY_STATUS =>
                  last'.invoked = <<[h |-> h, payload |-> properties]>>
            /\ kind # PROPERTY_STATUS => last'.invoked = <<>>
            /\ last'.result # "throws"
            /\ last'.emitted = <<>>
            /\ properties' = properties]_vars

\* C19's case: a second handler subscribed to PROPERTY_STATUS on a model
\* whose cache holds values, and it alone was invoked, with the cache.
C19_Witness ==
    /\ last.op = "subscribe"
    /\ last.name = PROPERTY_STATUS
    /\ Len(handlers[PROPERTY_STATUS]) = 2
    /\ properties # EmptyObject
    /\ last.invoked = <<[h |-> handlers[PROPERTY_STATUS][2], payload |-> properties]>>

====
